---------------------------- MODULE Spec2Model ----------------------------
(***************************************************************************)
(* The Active Component LED display engine of the cat feeder firmware      *)
(* (esp8266_code): the Panel's nodes, its command buffer, the pixel buffer *)
(* of the strip and the millisecond clock, with one action per Panel       *)
(* operation.                                                              *)
(***************************************************************************)
EXTENDS Integers, Sequences, FiniteSets, TLC

(***************************************************************************)
(* Program constants (include/config.hpp, include/active_components.hpp).  *)
(***************************************************************************)
LED_NUMBER == 30
LED_CYCLE_INTERVAL_MS == 100
LED_COMPONENT_STEP == 0
LED_COMPONENT_DISABLE_ON_COMPLETE == FALSE
LED_COMPONENT_INTERVAL_MS == 500
BOTTOM_STRIP_SIZE == 15
TOP_STRIP_START == 15
MAX_TRANSMISSION_LEDS == 5
\* static constexpr uint16_t LED_TOTAL_CMDS = LED_NUMBER;
LED_TOTAL_CMDS == LED_NUMBER
BLE_STATUS_CHECK_INTERVAL == 10000
LED_RENDER_INTERVAL == 100
\* enum class Component : Clock .. Error, _COUNT
Clock == 0
WifiStatus == 1
MotorLeft == 2
MotorRight == 3
Bluetooth == 4
Server == 5
Error == 6
COUNT == 7
\* TickAnimation(100), the default timer of a ColourPos
DEFAULT_TICK_INTERVAL == 100
\* cmd->duration of an activity pulse and of a data-transmission indicator
ACTIVITY_DURATION == 1000
TRANSMISSION_DURATION == 2000
\* unsigned long artificial_delay = 50, and the delay() calls of the start-up
ARTIFICIAL_DELAY == 50
STARTUP_DELAYS == 8

\* the turns of handle_beacons, and Motor::degrees_to_delay, set_speed, stop
FEED_TURN_DEGREES == 90
MAX_DEGREES_PER_SECOND == 360
MOTOR_FULL_SPEED == 100
SERVO_SETTLE_MS == 5
\* MAX_FEEDING_SINGLE_PORTION is used by handle_beacons and defined outside
\* the sources at hand: the longest wait of one feeding, in ms
MAX_FEEDING_SINGLE_PORTION == 4

(***************************************************************************)
(* Bounds of the model.                                                    *)
(***************************************************************************)
\* clock advances explored
MaxAdvances == 2
\* calls of the node setters explored among all the operations (the
\* producers are explored until the last of these calls)
MaxCalls == 1
\* calls of the node setters explored among the node operations alone
MaxNodeCalls == 2
\* the callers drive components 0 .. MaxComponent,
\* and among the node operations alone 0 .. MaxNodeComponent
MaxComponent == 1
MaxNodeComponent == 0
\* temporary slots of the pooled configuration (SpecPool)
PoolSlots == 2
\* temporary slots of the configuration the producers are run on
\* (SpecTransmit): two full rows of transmission indicators
TransmitSlots == 10
\* calls of activity and data_transmission explored,
\* and among all the operations on the buffer (SpecBuffer)
MaxProduced == 3
MaxBufferProduced == 2
\* passes of the main loop explored (SpecLoop): one turn of the strip and a step
MaxLoopAdvances == 31
\* clock advances explored among the passes of loop() (SpecMain)
MaxMainAdvances == 8
\* calls of the node setters explored before a render (SpecOverlay)
\* clock advances explored while commands run out (SpecExpiry), the
\* producers being called before the first of them
MaxExpiryAdvances == 3
\* how long before the wrap of millis() the operations start, and the clock
\* advances explored from there (SpecWrap)
WrapMargin == 50
MaxWrapAdvances == 4
MaxOverlayCalls == 2
MaxOverlayAdvances == 1
\* clock advances explored around the first BLE status check (SpecBle)
MaxBleAdvances == 4
\* devices a scan returns, and feedings explored (SpecFeeder)
MaxDevices == 2
MaxFeeds == 2
\* the largest max_steps passed to leds_for_progress (the start-up passes 7)
MaxSteps == 63

Components == 0 .. (COUNT - 1)
\* how far the clock moves between two operations
TimeSteps == {LED_CYCLE_INTERVAL_MS, LED_COMPONENT_INTERVAL_MS}
\* arguments of set_position: next to the end, past the end
PosInputs == {LED_NUMBER - 2, LED_NUMBER + 10}
\* arguments of set_step
StepInputs == {-1, 0, 1}
\* what a caller writes into a slot it allocated: on the first pixel for
\* ever, on the first pixel for a while, past the strip for a while
CmdInputs ==
  {[pos |-> 0, colour |-> "White", duration |-> 0],
   [pos |-> 0, colour |-> "Red", duration |-> LED_COMPONENT_INTERVAL_MS],
   [pos |-> LED_NUMBER, colour |-> "White", duration |-> LED_COMPONENT_INTERVAL_MS]}

NoValue == -1

(***************************************************************************)
(* Fixed-width integers.                                                   *)
(***************************************************************************)
\* conversion to uint16_t
U16(x) == x % 65536

\* conversion to int16_t
I16(x) == LET m == x % 65536 IN IF m >= 32768 THEN m - 65536 ELSE m

\* A uint32_t is written as the pair <<high half, low half>> of its 16-bit
\* halves: U32(n) is the uint32_t of value n
U32(n) == <<(n \div 65536) % 65536, n % 65536>>

\* uint32_t addition of a small amount d: a + d
Add32(a, d) ==
  LET s == a[2] + d IN <<(a[1] + (s \div 65536)) % 65536, s % 65536>>

\* uint32_t subtraction: a - b
Sub32(a, b) ==
  LET lo == a[2] - b[2]
      borrow == IF lo < 0 THEN 1 ELSE 0
  IN  <<(a[1] - b[1] - borrow) % 65536, lo % 65536>>

\* uint32_t comparison with a small amount n: x >= n
Ge32(x, n) ==
  \/ x[1] > n \div 65536
  \/ (x[1] = n \div 65536 /\ x[2] >= n % 65536)

VARIABLES
  now,            \* millis()
  _nodes,         \* Panel::_nodes, one ColourPos per Component
  _led_commands,  \* the command buffer: base frame, then temporary slots
  pixels,         \* the pixel buffer of LedStrip
  strip,          \* what the strip displays: the pixel buffer at the last show()
  shows,          \* LedStrip.show() calls of the last operation
  phase,          \* "boot" before initialise_active_components(), then "run"
  last,           \* the last operation: its name, component, result
  _led_position,  \* Panel::_led_position
  calls,          \* node setter calls so far
  advances,       \* clock advances so far
  produced,       \* calls of activity and data_transmission so far
  main_loop,      \* loop(): its local now and its static last_led_render
  call,           \* a call of a helper function: its arguments and its result
  feeder          \* handle_beacons(): where it is, its locals, the two motors

vars == <<now, _nodes, _led_commands, pixels, strip, shows, phase, last,
          _led_position, calls, advances, produced, main_loop, call, feeder>>

\* the length of the command buffer and its temporary region
TotalCmds == Cardinality(DOMAIN _led_commands)
TempSlots == LED_NUMBER .. (TotalCmds - 1)

(***************************************************************************)
(* Pixel primitive layer (include/leds.hpp, src/leds.cpp).                 *)
(***************************************************************************)
\* a count clamp that sends a negative count to 0
clamp_count_to_zero(count) ==
  IF count < 0 THEN 0 ELSE IF count > LED_NUMBER THEN LED_NUMBER ELSE count

\* LED::_clamp_count
_clamp_count(count) ==
  IF count < 0 \/ count > LED_NUMBER THEN LED_NUMBER ELSE count

\* an index clamp that sends a negative index to 0
clamp_index_to_zero(count) ==
  IF count < 0 THEN 0 ELSE IF count >= LED_NUMBER THEN LED_NUMBER - 1 ELSE count

\* a clamp that forgets the upper end
clamp_index_lower_only(count) ==
  IF count < 0 THEN LED_NUMBER - 1 ELSE count

_clamp_index_inclusif(count) ==
  IF count < 0 \/ count >= LED_NUMBER THEN LED_NUMBER - 1 ELSE count

\* led_set_led_position(led_index, colour, 0, false) on pixel buffer px
led_set_led_position(px, led_index, colour) ==
  [px EXCEPT ![U16(_clamp_index_inclusif(I16(led_index)))] = colour]

(***************************************************************************)
(* Single-precision arithmetic of leds_for_progress (include/my_utils.hpp). *)
(* A positive float is the pair <<m, e>> of value m * 2^e with a 24-bit     *)
(* significand 2^23 <= m < 2^24; zero is <<0, 0>>. Results are rounded to   *)
(* nearest, ties to even.                                                  *)
(***************************************************************************)
F32_BITS == 24

\* the quotient bits of rem / b after the leading one: k bits left to produce
RECURSIVE F32DivBits(_, _, _, _)
F32DivBits(m, rem, b, k) ==
  IF k = 0 THEN [m |-> m, rem |-> rem]
  ELSE F32DivBits(2 * m + ((2 * rem) \div b), (2 * rem) % b, b, k - 1)

\* a significand that has reached 2^24 after rounding up
F32Renorm(m, e) == IF m = 2 ^ F32_BITS THEN <<m \div 2, e + 1>> ELSE <<m, e>>

\* static_cast<float>(a) / static_cast<float>(b) for integers a >= 0, b > 0
\* below 2^15 (both conversions are exact)
RECURSIVE F32Div(_, _, _)
F32Div(a, b, e) ==
  IF a = 0 THEN <<0, 0>>
  ELSE IF a < b THEN F32Div(2 * a, b, e - 1)
  ELSE IF a >= 2 * b THEN F32Div(a, 2 * b, e + 1)
  ELSE LET d == F32DivBits(1, a - b, b, F32_BITS - 1)
           up == 2 * d.rem > b \/ (2 * d.rem = b /\ d.m % 2 = 1)
       IN  F32Renorm(IF up THEN d.m + 1 ELSE d.m, e - (F32_BITS - 1))

\* p / 2^k rounded to nearest, ties to even
F32RoundShift(p, k) ==
  LET q == p \div (2 ^ k)
      r == p % (2 ^ k)
      half == 2 ^ (k - 1)
  IN  IF k = 0 THEN p
      ELSE IF r > half \/ (r = half /\ q % 2 = 1) THEN q + 1 ELSE q

\* the number of bits by which p exceeds a 24-bit significand
RECURSIVE F32Excess(_)
F32Excess(p) == IF p < 2 ^ F32_BITS THEN 0 ELSE 1 + F32Excess(p \div 2)

\* x * static_cast<float>(t) for a float x and an integer 0 <= t < 128
F32Mul(x, t) ==
  IF x[1] = 0 \/ t = 0 THEN <<0, 0>>
  ELSE LET p == x[1] * t
           k == F32Excess(p)
       IN  F32Renorm(F32RoundShift(p, k), x[2] + k)

\* static_cast<int16_t>(x) for a float 0 <= x < 2^15: the fraction is dropped
F32ToInt(x) ==
  IF x[1] = 0 THEN 0
  ELSE IF x[2] >= 0 THEN x[1] * (2 ^ x[2])
  ELSE IF 0 - x[2] >= F32_BITS THEN 0
  ELSE x[1] \div (2 ^ (0 - x[2]))

\* a helper that works on integers and rounds to the nearest count
leds_for_progress_rounded(current, max, total_leds) ==
  IF max = 0 THEN 0 ELSE (2 * current * total_leds + max) \div (2 * max)

\* MyUtils::leds_for_progress<int16_t>(current, max, total_leds)
leds_for_progress(current, max, total_leds) ==
  IF max = 0 THEN 0
  ELSE LET percent == F32Div(current, max, 0)
       IN  I16(F32ToInt(F32Mul(percent, total_leds)))

(***************************************************************************)
(* Animated node model (include/leds_structs.hpp, include/leds.hpp).       *)
(***************************************************************************)
\* TickAnimation(interval)
TickAnimation(interval) ==
  [interval_ms |-> interval, last_update_ms |-> U32(0), current_frame |-> 0,
   ticked |-> FALSE]

\* ColourPos(pos, colour): pos_step = true, enabled, no disable-on-complete
ColourPos(pos, colour) ==
  [pos |-> pos, colour |-> colour, pos_step |-> 1, node_enabled |-> TRUE,
   disable_on_complete |-> FALSE,
   tick_animation |-> TickAnimation(DEFAULT_TICK_INTERVAL)]

\* a timer that counts every interval elapsed since it last fired
tick_animation_tick_catch_up(ta, t) ==
  IF Ge32(Sub32(t, ta.last_update_ms), ta.interval_ms)
  THEN [ta EXCEPT !.current_frame =
                     ta.current_frame
                       + (Sub32(t, ta.last_update_ms)[2] \div ta.interval_ms),
                  !.last_update_ms = t,
                  !.ticked = TRUE]
  ELSE ta

\* TickAnimation::tick() at time t
tick_animation_tick(ta, t) ==
  IF Ge32(Sub32(t, ta.last_update_ms), ta.interval_ms)
  THEN [ta EXCEPT !.current_frame = ta.current_frame + 1,
                  !.last_update_ms = t,
                  !.ticked = TRUE]
  ELSE ta

\* TickAnimation::ticked(): the flag read, and the timer with the flag cleared
tick_animation_ticked(ta) == ta.ticked
tick_animation_consumed(ta) == [ta EXCEPT !.ticked = FALSE]

\* the test taken as soon as the last index is reached
OutOfBounds_at_edge(step, new_pos) ==
  \/ (step >= 0 /\ new_pos >= LED_NUMBER - 1)
  \/ (step < 0 /\ new_pos < 0)

\* the test with both comparisons inclusive
OutOfBounds_inclusive(step, new_pos) ==
  \/ (step >= 0 /\ new_pos >= LED_NUMBER - 1)
  \/ (step <= 0 /\ new_pos <= 0)

\* the wrap-or-disable test of _move_pixel on the unclamped new position
OutOfBounds(step, new_pos) ==
  \/ (step >= 0 /\ new_pos > LED_NUMBER - 1)
  \/ (step < 0 /\ new_pos < 0)

\* the ends of the strip exchanged
WrapPos_swapped(step) == IF step >= 0 THEN LED_NUMBER - 1 ELSE 0

\* where _move_pixel wraps a node to: the start, or the end when moving back
WrapPos(step) == IF step >= 0 THEN 0 ELSE LED_NUMBER - 1

\* _move_pixel(item, item.pos) at time t
_move_pixel(item, t) ==
  LET ta1 == tick_animation_tick(item.tick_animation, t)
      fired == tick_animation_ticked(ta1)
      it1 == [item EXCEPT !.tick_animation = tick_animation_consumed(ta1)]
      new_pos == item.pos + item.pos_step
      new_pos_clamped == _clamp_index_inclusif(I16(new_pos))
      it2 == [it1 EXCEPT !.pos = U16(new_pos_clamped)]
  IN  IF ~fired THEN it1
      ELSE IF OutOfBounds(item.pos_step, new_pos)
           THEN IF item.disable_on_complete
                THEN [it2 EXCEPT !.node_enabled = FALSE]
                ELSE [it2 EXCEPT !.pos = WrapPos(item.pos_step)]
           ELSE it2

\* whether the node's timer fires in a _move_pixel at time t
Fires(item, t) == tick_animation_ticked(tick_animation_tick(item.tick_animation, t))

(***************************************************************************)
(* Panel (src/active_components.cpp).                                      *)
(***************************************************************************)
\* LEDCommand(): the zero-initialised slot
LEDCommand ==
  [pos |-> 0, colour |-> "Black", duration |-> 0, startTime |-> U32(0),
   active |-> FALSE]

LED_DEFAULT_BACKGROUND == [LEDCommand EXCEPT !.colour = "Black"]

\* the initialisers of Panel::_nodes
NodeColour(c) ==
  CASE c = Clock -> "Yellow"
    [] c = WifiStatus -> "Green"
    [] c = MotorLeft -> "Aqua"
    [] c = MotorRight -> "DarkMagenta"
    [] c = Bluetooth -> "DarkBlue"
    [] c = Server -> "LimeGreen"
    [] OTHER -> "Red"

\* Panel::get: an invalid index falls back to the first node
Get(c) == IF c >= COUNT THEN 0 ELSE c

\* a rebuild that leaves the active flags as they are
build_base_frame_inactive(cmds) ==
  [i \in DOMAIN cmds |->
     IF i < LED_NUMBER
     THEN [cmds[i] EXCEPT !.pos = i,
                          !.colour = LED_DEFAULT_BACKGROUND.colour,
                          !.duration = 0]
     ELSE cmds[i]]

\* Panel::build_base_frame on command buffer cmds
build_base_frame(cmds) ==
  [i \in DOMAIN cmds |->
     IF i < LED_NUMBER
     THEN [cmds[i] EXCEPT !.pos = i,
                          !.colour = LED_DEFAULT_BACKGROUND.colour,
                          !.active = TRUE,
                          !.duration = 0]
     ELSE cmds[i]]

\* a scan that takes the last free slot
AllocIndex_last(cmds) ==
  LET free == {i \in LED_NUMBER .. (Cardinality(DOMAIN cmds) - 1) : ~cmds[i].active}
  IN  IF free = {} THEN NoValue
      ELSE CHOOSE i \in free : \A j \in free : i >= j

\* a scan that passes over a freed slot still holding its old duration
AllocIndex_stale(cmds) ==
  LET free == {i \in LED_NUMBER .. (Cardinality(DOMAIN cmds) - 1) :
                 ~cmds[i].active /\ cmds[i].duration = 0}
  IN  IF free = {} THEN NoValue
      ELSE CHOOSE i \in free : \A j \in free : i <= j

\* a scan that takes the first temporary slot back when none is free
AllocIndex_evict(cmds) ==
  LET free == {i \in LED_NUMBER .. (Cardinality(DOMAIN cmds) - 1) : ~cmds[i].active}
  IN  IF free = {}
      THEN (IF Cardinality(DOMAIN cmds) > LED_NUMBER THEN LED_NUMBER ELSE NoValue)
      ELSE CHOOSE i \in free : \A j \in free : i <= j

\* a scan that also takes a slot whose command has run out at the current time
AllocIndex_expired(cmds) ==
  LET free == {i \in LED_NUMBER .. (Cardinality(DOMAIN cmds) - 1) :
                 \/ ~cmds[i].active
                 \/ /\ cmds[i].duration > 0
                    /\ Ge32(Sub32(now, cmds[i].startTime), cmds[i].duration)}
  IN  IF free = {} THEN NoValue
      ELSE CHOOSE i \in free : \A j \in free : i <= j

\* Panel::allocate_led_command: the index of the slot returned, or NoValue
AllocIndex(cmds) ==
  LET free == {i \in LED_NUMBER .. (Cardinality(DOMAIN cmds) - 1) : ~cmds[i].active}
  IN  IF free = {} THEN NoValue
      ELSE CHOOSE i \in free : \A j \in free : i <= j

\* Panel::allocate_led_command: the buffer after the call
AllocClear(cmds) ==
  LET i == AllocIndex(cmds)
  IN  IF i = NoValue THEN cmds
      ELSE [cmds EXCEPT ![i] = [@ EXCEPT !.pos = 0, !.duration = 0,
                                         !.startTime = U32(0), !.active = FALSE]]


\* Panel::initialize_clock
initialize_clock(nodes) ==
  [nodes EXCEPT ![Clock] =
     [@ EXCEPT !.pos = 0, !.colour = "Yellow", !.pos_step = 1,
               !.disable_on_complete = FALSE,
               !.tick_animation = [@ EXCEPT !.interval_ms = LED_CYCLE_INTERVAL_MS]]]

\* a set-up that shows every component whatever visible is
initialize_component_status_shown(nodes, c, visible, lp) ==
  [nodes EXCEPT ![c] =
     [@ EXCEPT !.pos = U16(lp), !.pos_step = LED_COMPONENT_STEP,
               !.disable_on_complete = LED_COMPONENT_DISABLE_ON_COMPLETE,
               !.tick_animation = [@ EXCEPT !.interval_ms = LED_COMPONENT_INTERVAL_MS],
               !.node_enabled = TRUE]]

\* Panel::initialize_component_status(c, visible) with _led_position = lp
initialize_component_status(nodes, c, visible, lp) ==
  [nodes EXCEPT ![c] =
     [@ EXCEPT !.pos = U16(lp), !.pos_step = LED_COMPONENT_STEP,
               !.disable_on_complete = LED_COMPONENT_DISABLE_ON_COMPLETE,
               !.tick_animation = [@ EXCEPT !.interval_ms = LED_COMPONENT_INTERVAL_MS],
               !.node_enabled = visible]]

\* the order in which initialise_active_components sets the components up
StartupOrder == <<WifiStatus, Bluetooth, MotorLeft, MotorRight, Server, Error>>

RECURSIVE InitComponents(_, _, _)
InitComponents(nodes, k, lp) ==
  IF k > Len(StartupOrder) THEN [nodes |-> nodes, lp |-> lp]
  ELSE InitComponents(initialize_component_status(nodes, StartupOrder[k], FALSE, lp),
                      k + 1, lp + 2)

\* render, step 1: every pixel i < LED_NUMBER from the base frame, a slot the
\* buffer does not hold skipped
RenderBase(px, cmds) ==
  [i \in DOMAIN px |->
     IF i >= Cardinality(DOMAIN cmds) THEN px[i]
     ELSE led_set_led_position(px, i, cmds[i].colour)[i]]

\* an overlay that does not look at the enabled flag
NodeDrawn_any(n, cmds) ==
  ~(n.pos >= LED_NUMBER) /\ ~(n.pos >= Cardinality(DOMAIN cmds))

\* an overlay that leaves the position to the clamp of led_set_led_position
NodeDrawn_clamped(n, cmds) == n.node_enabled

\* whether render overlays node n
NodeDrawn(n, cmds) ==
  n.node_enabled /\ ~(n.pos >= LED_NUMBER) /\ ~(n.pos >= Cardinality(DOMAIN cmds))

\* render, step 2: the enabled nodes, in index order
RECURSIVE RenderNodes(_, _, _, _)
RenderNodes(px, nodes, cmds, idx) ==
  IF idx >= COUNT THEN px
  ELSE RenderNodes(IF NodeDrawn(nodes[idx], cmds)
                   THEN led_set_led_position(px, nodes[idx].pos, nodes[idx].colour)
                   ELSE px,
                   nodes, cmds, idx + 1)

\* an expiry test on the deadline startTime + duration, itself a uint32_t
Expired_deadline(cmd, t) ==
  /\ cmd.duration > 0
  /\ LET deadline == Add32(cmd.startTime, cmd.duration)
     IN  t[1] > deadline[1] \/ (t[1] = deadline[1] /\ t[2] >= deadline[2])

\* an expiry test with the test of the duration inverted
Expired_inverted(cmd, t) ==
  ~(cmd.duration > 0) /\ Ge32(Sub32(t, cmd.startTime), cmd.duration)

\* an expiry one millisecond late
Expired_strict(cmd, t) ==
  cmd.duration > 0 /\ Ge32(Sub32(t, cmd.startTime), cmd.duration + 1)

\* an expiry that takes every command of finite duration at once
Expired_always(cmd, t) == cmd.duration > 0

\* the expiry test of render on a command at time t
Expired(cmd, t) == cmd.duration > 0 /\ Ge32(Sub32(t, cmd.startTime), cmd.duration)

\* render, step 3: the temporary commands, in index order, at time t
RECURSIVE RenderCommands(_, _, _, _)
RenderCommands(px, cmds, i, t) ==
  IF i >= Cardinality(DOMAIN cmds) THEN [px |-> px, cmds |-> cmds]
  ELSE IF ~cmds[i].active THEN RenderCommands(px, cmds, i + 1, t)
  ELSE IF Expired(cmds[i], t)
       THEN RenderCommands(px, [cmds EXCEPT ![i].active = FALSE], i + 1, t)
  ELSE IF cmds[i].pos >= LED_NUMBER
       THEN RenderCommands(px, [cmds EXCEPT ![i].active = FALSE], i + 1, t)
  ELSE RenderCommands(led_set_led_position(px, cmds[i].pos, cmds[i].colour),
                      cmds, i + 1, t)

\* the passes in the wrong order: the nodes over the temporary commands
render_nodes_last(px, nodes, cmds, t) ==
  LET r == RenderCommands(RenderBase(px, cmds), cmds, LED_NUMBER, t)
  IN  [px |-> RenderNodes(r.px, nodes, cmds, 0), cmds |-> r.cmds]

\* Panel::render at time t: the pixel buffer and the command buffer after it
render(px, nodes, cmds, t) ==
  RenderCommands(RenderNodes(RenderBase(px, cmds), nodes, cmds, 0),
                 cmds, LED_NUMBER, t)

\* a flush before the temporary commands are drawn
Flushed_before_commands(px, nodes, cmds, t) ==
  RenderNodes(RenderBase(px, cmds), nodes, cmds, 0)

\* LED::led_refresh() at the end of Panel::render: the pixel buffer that
\* LedStrip.show() pushes to the strip
Flushed(px, nodes, cmds, t) == render(px, nodes, cmds, t).px

\* a pulse drawn on the node itself
PulsePos_same(item) == item.pos

\* the position of the activity pulse of a node
PulsePos(item) ==
  LET pos == U16(item.pos + 1) IN IF pos >= LED_NUMBER THEN 0 ELSE pos

\* Panel::activity(c, true) at time t: the command buffer after it
activity(cmds, nodes, c, t) ==
  LET item == nodes[Get(c)]
      i == AllocIndex(cmds)
  IN  IF i = NoValue THEN cmds
      ELSE [AllocClear(cmds) EXCEPT ![i] =
              [@ EXCEPT !.pos = PulsePos(item), !.colour = item.colour,
                        !.duration = ACTIVITY_DURATION, !.startTime = t,
                        !.active = TRUE]]

\* a call with active = false that cancels the pending pulses of the node
activity_call_cancel(cmds, nodes, c, active, t) ==
  IF active THEN activity(cmds, nodes, c, t)
  ELSE [i \in DOMAIN cmds |->
          IF /\ i >= LED_NUMBER
             /\ cmds[i].duration = ACTIVITY_DURATION
             /\ cmds[i].pos = PulsePos(nodes[Get(c)])
          THEN [cmds[i] EXCEPT !.active = FALSE] ELSE cmds[i]]

\* Panel::activity(c, active) at time t: the command buffer after it
activity_call(cmds, nodes, c, active, t) ==
  IF ~active THEN cmds ELSE activity(cmds, nodes, c, t)

\* a mapping that forgets the flip of the top strip
TopStart_unflipped(bottom_pos) == U16(TOP_STRIP_START + bottom_pos)

\* the start of the indicators in the top strip
TopStart(bottom_pos) == U16(TOP_STRIP_START + (BOTTOM_STRIP_SIZE - 1 - bottom_pos))

Min(a, b) == IF a < b THEN a ELSE b

\* a loop that stops after its first indicator
TransmissionLoop_single(cmds, i, top_start, shown, colour, t) ==
  LET led_pos == U16(top_start - i)
      k == AllocIndex(cmds)
  IN  IF led_pos < TOP_STRIP_START \/ led_pos >= LED_NUMBER THEN cmds
      ELSE IF k = NoValue THEN cmds
      ELSE [AllocClear(cmds) EXCEPT ![k] =
              [@ EXCEPT !.pos = led_pos,
                        !.colour = IF i < shown THEN colour
                                   ELSE LED_DEFAULT_BACKGROUND.colour,
                        !.duration = TRANSMISSION_DURATION,
                        !.startTime = t, !.active = TRUE]]

\* a loop that gives every indicator the colour of the component
RECURSIVE TransmissionLoop_all_lit(_, _, _, _, _, _)
TransmissionLoop_all_lit(cmds, i, top_start, shown, colour, t) ==
  LET led_pos == U16(top_start - i)
      k == AllocIndex(cmds)
  IN  IF i >= MAX_TRANSMISSION_LEDS THEN cmds
      ELSE IF led_pos < TOP_STRIP_START \/ led_pos >= LED_NUMBER THEN cmds
      ELSE IF k = NoValue THEN cmds
      ELSE TransmissionLoop_all_lit(
             [AllocClear(cmds) EXCEPT ![k] =
                [@ EXCEPT !.pos = led_pos, !.colour = colour,
                          !.duration = TRANSMISSION_DURATION,
                          !.startTime = t, !.active = TRUE]],
             i + 1, top_start, shown, colour, t)

\* a loop that, finding the buffer full, writes over the last slot
RECURSIVE TransmissionLoop_overwrite(_, _, _, _, _, _)
TransmissionLoop_overwrite(cmds, i, top_start, shown, colour, t) ==
  LET led_pos == U16(top_start - i)
      a == AllocIndex(cmds)
      k == IF a = NoValue THEN Cardinality(DOMAIN cmds) - 1 ELSE a
  IN  IF i >= MAX_TRANSMISSION_LEDS THEN cmds
      ELSE IF led_pos < TOP_STRIP_START \/ led_pos >= LED_NUMBER THEN cmds
      ELSE TransmissionLoop_overwrite(
             [cmds EXCEPT ![k] =
                [@ EXCEPT !.pos = led_pos,
                          !.colour = IF i < shown THEN colour
                                     ELSE LED_DEFAULT_BACKGROUND.colour,
                          !.duration = TRANSMISSION_DURATION,
                          !.startTime = t, !.active = TRUE]],
             i + 1, top_start, shown, colour, t)

\* the loop of Panel::data_transmission from iteration i
RECURSIVE TransmissionLoop(_, _, _, _, _, _)
TransmissionLoop(cmds, i, top_start, shown, colour, t) ==
  LET led_pos == U16(top_start - i)
      k == AllocIndex(cmds)
  IN  IF i >= MAX_TRANSMISSION_LEDS THEN cmds
      ELSE IF led_pos < TOP_STRIP_START \/ led_pos >= LED_NUMBER THEN cmds
      ELSE IF k = NoValue THEN cmds
      ELSE TransmissionLoop(
             [AllocClear(cmds) EXCEPT ![k] =
                [@ EXCEPT !.pos = led_pos,
                          !.colour = IF i < shown THEN colour
                                     ELSE LED_DEFAULT_BACKGROUND.colour,
                          !.duration = TRANSMISSION_DURATION,
                          !.startTime = t, !.active = TRUE]],
             i + 1, top_start, shown, colour, t)

\* a variant that moves a node beyond the bottom strip back onto its last pixel
data_transmission_clamped(cmds, nodes, comp, size, t) ==
  LET component_node == nodes[Get(comp)]
      bottom_pos == IF component_node.pos >= BOTTOM_STRIP_SIZE
                    THEN BOTTOM_STRIP_SIZE - 1 ELSE component_node.pos
  IN  TransmissionLoop(cmds, 0, TopStart(bottom_pos),
                       Min(size, MAX_TRANSMISSION_LEDS),
                       component_node.colour, t)

\* Panel::data_transmission(comp, size) at time t: the command buffer after it
data_transmission(cmds, nodes, comp, size, t) ==
  LET component_node == nodes[Get(comp)]
      bottom_pos == component_node.pos
  IN  IF bottom_pos >= BOTTOM_STRIP_SIZE THEN cmds
      ELSE TransmissionLoop(cmds, 0, TopStart(bottom_pos),
                            Min(size, MAX_TRANSMISSION_LEDS),
                            component_node.colour, t)

\* a tick that also moves the disabled nodes
tick_all(nodes, t) == [c \in DOMAIN nodes |-> _move_pixel(nodes[c], t)]

\* Panel::tick at time t
tick(nodes, t) ==
  [c \in DOMAIN nodes |->
     IF ~nodes[c].node_enabled THEN nodes[c] ELSE _move_pixel(nodes[c], t)]


(***************************************************************************)
(* The state machine.                                                      *)
(***************************************************************************)
Op(name, c, ret, fired) == [op |-> name, c |-> c, ret |-> ret, fired |-> fired]

\* The colour aliases yellow_colour, green_colour, dark_blue and red_colour are
\* initialised at run time in leds.cpp and read by the initialisers of _nodes
\* in active_components.cpp: if _nodes is initialised first it reads them
\* zero-initialised, (0, 0, 0, 0), which is the colour written "Black" here.
StaticColour(c, aliases_ready) ==
  IF c \in {MotorLeft, MotorRight, Server} \/ aliases_ready
  THEN NodeColour(c) ELSE "Black"

\* no helper call under way
\* handle_beacons before its first request
NoCheck ==
  [scan_status |-> FALSE, scanned |-> <<>>, visits |-> <<>>, device_id |-> 0, valid_devices |-> 0,
   asked |-> NoValue, get_resp |-> [kind |-> "none"], can_feed |-> FALSE,
   distributable_amount |-> -1, updated |-> FALSE, food_amount |-> <<>>,
   feed_update |-> FALSE, dispense |-> FALSE]

NoCall == [f |-> "none", args |-> <<>>, ret |-> NoValue]

\* the Panel after static construction, with a command buffer of n slots
InitPanel(n) ==
  /\ now = U32(0)
  /\ \E aliases_ready \in BOOLEAN :
       _nodes = [c \in Components |-> ColourPos(c, StaticColour(c, aliases_ready))]
  /\ _led_commands = [i \in 0 .. (n - 1) |-> LEDCommand]
  /\ pixels = [p \in 0 .. (LED_NUMBER - 1) |-> "Black"]
  /\ strip = [p \in 0 .. (LED_NUMBER - 1) |-> "Black"]
  /\ shows = 0
  /\ phase = "boot"
  /\ last = Op("construct", NoValue, NoValue, {})
  /\ _led_position = 0
  /\ calls = 0
  /\ advances = 0
  /\ produced = 0
  /\ main_loop = [now |-> U32(0), last_led_render |-> U32(0),
                  last_ble_status_check |-> U32(0), ble |-> "none",
                  ble_at |-> <<>>, ble_before |-> <<>>,
                  handle_beacons |-> FALSE]
  /\ feeder = [pc |-> "idle", leftMotor |-> 0, rightMotor |-> 0, moves |-> <<>>,
               feeds |-> 0, check |-> NoCheck]

\* the state after static construction, with a command buffer of n slots
InitWith(n) == InitPanel(n) /\ call = NoCall

\* the shipped buffer: LED_TOTAL_CMDS slots
Init == InitWith(LED_TOTAL_CMDS)

\* a buffer with PoolSlots temporary slots after the base frame
InitPool == InitWith(LED_NUMBER + PoolSlots)

\* the state after static construction with TransmitSlots temporary slots
InitTransmit == InitWith(LED_NUMBER + TransmitSlots)

\* initialise_active_components()
InitialiseActiveComponents ==
  /\ phase = "boot"
  /\ LET t == Add32(now, STARTUP_DELAYS * ARTIFICIAL_DELAY)
         r == InitComponents(initialize_clock(_nodes), 1, _led_position)
         cmds == build_base_frame(build_base_frame(_led_commands))
         \* display_percentage(dark_blue, green, 7, 7) has lit every pixel
         px == [p \in DOMAIN pixels |-> "DarkBlue"]
         out == render(px, r.nodes, cmds, t)
     IN  /\ now' = t
         /\ _nodes' = r.nodes
         /\ _led_position' = r.lp
         /\ _led_commands' = out.cmds
         /\ pixels' = out.px
         /\ strip' = Flushed(px, r.nodes, cmds, t)
         /\ shows' = COUNT + 1 + 1
  /\ phase' = "run"
  /\ last' = Op("initialise", NoValue, NoValue, {})
  /\ UNCHANGED <<calls, advances, produced, main_loop, call, feeder>>

\* time passes between two operations
AdvanceTime(d) ==
  /\ phase = "run"
  /\ now' = Add32(now, d)
  /\ advances' = advances + 1
  /\ shows' = 0
  /\ last' = Op("advance", NoValue, NoValue, {})
  /\ UNCHANGED <<_nodes, _led_commands, pixels, strip, phase, _led_position, calls, produced, main_loop, call, feeder>>

\* millis() after 49.7 days without a call: WrapMargin ms before it wraps
RunToWrap ==
  /\ phase = "run"
  /\ advances = 0
  /\ now' = Sub32(U32(0), U32(WrapMargin))
  /\ advances' = 1
  /\ shows' = 0
  /\ last' = Op("advance", NoValue, NoValue, {})
  /\ UNCHANGED <<_nodes, _led_commands, pixels, strip, phase, _led_position, calls, produced, main_loop, call, feeder>>

\* a node setter: the node of component c becomes n
SetNode(name, c, n) ==
  /\ phase = "run"
  /\ _nodes' = [_nodes EXCEPT ![Get(c)] = n]
  /\ calls' = calls + 1
  /\ shows' = 0
  /\ last' = Op(name, c, NoValue, {})
  /\ UNCHANGED <<now, _led_commands, pixels, strip, phase, _led_position, advances, produced, main_loop, call, feeder>>

\* Panel::enable(c)
Enable(c) == SetNode("enable", c, [_nodes[Get(c)] EXCEPT !.node_enabled = TRUE])

\* Panel::disable(c)
Disable(c) == SetNode("disable", c, [_nodes[Get(c)] EXCEPT !.node_enabled = FALSE])

\* Panel::set_position(c, pos)
SetPosition(c, pos) == SetNode("set_position", c, [_nodes[Get(c)] EXCEPT !.pos = pos])

\* Panel::set_step(c, step)
SetStep(c, step) == SetNode("set_step", c, [_nodes[Get(c)] EXCEPT !.pos_step = step])

\* LED::Nodes::set_disable_on_complete(Panel::get(c), disable)
SetDisableOnComplete(c, disable) ==
  SetNode("set_disable_on_complete", c,
          [_nodes[Get(c)] EXCEPT !.disable_on_complete = disable])

\* Panel::tick()
Tick ==
  /\ phase = "run"
  /\ _nodes' = tick(_nodes, now)
  /\ shows' = 0
  /\ last' = Op("tick", NoValue, NoValue,
                {c \in Components : _nodes[c].node_enabled /\ Fires(_nodes[c], now)})
  /\ UNCHANGED <<now, _led_commands, pixels, strip, phase, _led_position, calls, advances, produced, main_loop, call, feeder>>

\* Panel::render()
Render ==
  /\ phase = "run"
  /\ LET out == render(pixels, _nodes, _led_commands, now)
     IN  /\ pixels' = out.px
         /\ _led_commands' = out.cmds
  /\ strip' = Flushed(pixels, _nodes, _led_commands, now)
  /\ shows' = 1
  /\ last' = Op("render", NoValue, NoValue, {})
  /\ UNCHANGED <<now, _nodes, phase, _led_position, calls, advances, produced, main_loop, call, feeder>>

\* Panel::build_base_frame()
BuildBaseFrame ==
  /\ phase = "run"
  /\ _led_commands' = build_base_frame(_led_commands)
  /\ shows' = 0
  /\ last' = Op("build_base_frame", NoValue, NoValue, {})
  /\ UNCHANGED <<now, _nodes, pixels, strip, phase, _led_position, calls, advances, produced, main_loop, call, feeder>>

\* Panel::activity(c, active)
Activity(c, active) ==
  /\ phase = "run"
  /\ _led_commands' = activity_call(_led_commands, _nodes, c, active, now)
  /\ shows' = 0
  /\ last' = Op(IF active THEN "activity" ELSE "activity_off", c,
                IF active THEN AllocIndex(_led_commands) ELSE NoValue, {})
  /\ produced' = produced + 1
  /\ UNCHANGED <<now, _nodes, pixels, strip, phase, _led_position, calls, advances, main_loop, call, feeder>>

\* Panel::data_transmission(comp, size)
DataTransmission(comp, size) ==
  /\ phase = "run"
  /\ _led_commands' = data_transmission(_led_commands, _nodes, comp, size, now)
  /\ shows' = 0
  /\ last' = Op("data_transmission", comp, size, {})
  /\ produced' = produced + 1
  /\ UNCHANGED <<now, _nodes, pixels, strip, phase, _led_position, calls, advances, main_loop, call, feeder>>

\* Panel::allocate_led_command(), called from outside the Panel
AllocateLedCommand ==
  /\ phase = "run"
  /\ _led_commands' = AllocClear(_led_commands)
  /\ shows' = 0
  /\ last' = Op("allocate", NoValue, AllocIndex(_led_commands), {})
  /\ UNCHANGED <<now, _nodes, pixels, strip, phase, _led_position, calls, advances, produced, main_loop, call, feeder>>

\* the caller of allocate_led_command() fills the slot it was given and
\* activates it, as Panel::activity does
ActivateCommand(pos, colour, duration) ==
  /\ phase = "run"
  /\ last.op = "allocate"
  /\ last.ret # NoValue
  /\ _led_commands' = [_led_commands EXCEPT ![last.ret] =
        [@ EXCEPT !.pos = pos, !.colour = colour, !.duration = duration,
                  !.startTime = now, !.active = TRUE]]
  /\ shows' = 0
  /\ last' = Op("activate", NoValue, last.ret, {})
  /\ UNCHANGED <<now, _nodes, pixels, strip, phase, _led_position, calls, advances, produced, main_loop, call, feeder>>

\* a test that lets the LED section run twice as often
LedUpdateDue_half(loop_now, last_led_render) ==
  Ge32(Sub32(loop_now, last_led_render), LED_RENDER_INTERVAL \div 2)

\* loop(): now - last_led_render >= LED_RENDER_INTERVAL
LedUpdateDue(loop_now, last_led_render) ==
  Ge32(Sub32(loop_now, last_led_render), LED_RENDER_INTERVAL)

\* a LED section that renders before it ticks
led_update_render_first(px, nodes, cmds, t) ==
  LET out == render(px, nodes, cmds, t)
  IN  [nodes |-> tick(nodes, t), px |-> out.px, cmds |-> out.cmds,
       strip |-> Flushed(px, nodes, cmds, t)]

\* the LED section of loop(): Panel::tick() then Panel::render(), at time t
led_update(px, nodes, cmds, t) ==
  LET ticked == tick(nodes, t)
      out == render(px, ticked, cmds, t)
  IN  [nodes |-> ticked, px |-> out.px, cmds |-> out.cmds,
       strip |-> Flushed(px, ticked, cmds, t)]

\* loop(): last_ble_status_check after a pass; the BLE section does not
\* assign it
ble_status_checked(loop_now, last_ble_status_check, due) ==
  last_ble_status_check

\* loop(): now - last_ble_status_check >= BLE_STATUS_CHECK_INTERVAL
BleStatusDue(loop_now, last_ble_status_check) ==
  Ge32(Sub32(loop_now, last_ble_status_check), BLE_STATUS_CHECK_INTERVAL)

\* the BLE section of loop(): isConnected(), then hasIncomingData() and
\* handle_beacons() when no device is connected
ble_status(due, connected, incoming) ==
  IF ~due THEN "skipped"
  ELSE IF connected THEN "connected"
  ELSE IF incoming THEN "beacons"
  ELSE "quiet"

\* one pass of loop() up to the end of its BLE section; monitorConnection()
\* has taken d ms between the millis() of loop() and those of tick() and
\* render(); connected is the BLE state pin, incoming hasIncomingData()
Loop(d, connected, incoming) ==
  /\ phase = "run"
  /\ feeder.pc = "idle"
  /\ ~main_loop.handle_beacons
  /\ LET t == Add32(now, d)
         due == LedUpdateDue(now, main_loop.last_led_render)
         u == led_update(pixels, _nodes, _led_commands, t)
         ble_due == BleStatusDue(now, main_loop.last_ble_status_check)
         ble == ble_status(ble_due, connected, incoming)
         cmds == IF due THEN u.cmds ELSE _led_commands
     IN  /\ now' = t
         /\ main_loop' = [now |-> now,
                          last_led_render |-> IF due THEN now
                                              ELSE main_loop.last_led_render,
                          last_ble_status_check |->
                            ble_status_checked(now, main_loop.last_ble_status_check,
                                               ble_due),
                          ble |-> ble,
                          ble_at |-> IF ble_due THEN now ELSE main_loop.ble_at,
                          ble_before |-> IF ble_due THEN main_loop.ble_at
                                         ELSE main_loop.ble_before,
                          handle_beacons |-> ble = "beacons"]
         /\ _nodes' = IF due THEN u.nodes ELSE _nodes
         /\ pixels' = IF due THEN u.px ELSE pixels
         /\ _led_commands' =
              IF ble_due
              THEN activity_call(cmds, IF due THEN u.nodes ELSE _nodes,
                                 Bluetooth, connected, t)
              ELSE cmds
         /\ strip' = IF due THEN u.strip ELSE strip
         /\ shows' = IF due THEN 1 ELSE 0
         /\ last' = Op("loop", NoValue, IF due THEN 1 ELSE 0,
                       IF due
                       THEN {c \in Components :
                               _nodes[c].node_enabled /\ Fires(_nodes[c], t)}
                       ELSE {})
  /\ advances' = advances + (IF d > 0 THEN 1 ELSE 0)
  /\ UNCHANGED <<phase, _led_position, calls, produced, call, feeder>>

panel_vars == <<now, _nodes, _led_commands, pixels, strip, shows, phase, last,
                _led_position, calls, advances, produced, main_loop, feeder>>

\* the arguments of the helper calls: every int16_t for the two clamps, and
\* for leds_for_progress the steps 0 <= current <= max up to MaxSteps on a
\* strip of LED_NUMBER
Int16 == -32768 .. 32767
ClampInputs == {[f |-> "input", args |-> <<n>>, ret |-> NoValue] : n \in Int16}
ProgressInputs ==
  {[f |-> "input", args |-> <<current, max, LED_NUMBER>>, ret |-> NoValue] :
     current \in 0 .. MaxSteps, max \in 0 .. MaxSteps}

\* a helper is about to be called with arguments drawn from its inputs
InitHelpers == InitPanel(LED_TOTAL_CMDS) /\ call \in ClampInputs \cup ProgressInputs

\* LED::_clamp_count(count)
ClampCount ==
  /\ call.f = "input"
  /\ Len(call.args) = 1
  /\ call' = [f |-> "_clamp_count", args |-> call.args,
              ret |-> _clamp_count(call.args[1])]
  /\ UNCHANGED panel_vars

\* LED::_clamp_index_inclusif(count)
ClampIndexInclusif ==
  /\ call.f = "input"
  /\ Len(call.args) = 1
  /\ call' = [f |-> "_clamp_index_inclusif", args |-> call.args,
              ret |-> _clamp_index_inclusif(call.args[1])]
  /\ UNCHANGED panel_vars

\* MyUtils::leds_for_progress<int16_t>(current, max, total_leds)
LedsForProgress ==
  /\ call.f = "input"
  /\ Len(call.args) = 3
  /\ call' = [f |-> "leds_for_progress", args |-> call.args,
              ret |-> leds_for_progress(call.args[1], call.args[2], call.args[3])]
  /\ UNCHANGED panel_vars

\* the calls of the helpers
NextHelpers ==
  \/ ClampCount
  \/ ClampIndexInclusif
  \/ LedsForProgress

(***************************************************************************)
(* The feeding decision and the two motors (src/main.cpp, src/motors.cpp,   *)
(* src/server_control_endpoints.cpp).                                      *)
(***************************************************************************)
\* a delay that keeps the sign of the speed: no time for a turn to the left
degrees_to_delay_signed(speed, degrees) ==
  IF speed <= 0 THEN 0
  ELSE (degrees * 1000 * MOTOR_FULL_SPEED) \div (MAX_DEGREES_PER_SECOND * speed)

Abs(x) == IF x < 0 THEN 0 - x ELSE x

\* Motor::degrees_to_delay(speed, degrees), in ms
degrees_to_delay(speed, degrees) ==
  IF Abs(speed) = 0 THEN 0
  ELSE (degrees * 1000 * MOTOR_FULL_SPEED) \div (MAX_DEGREES_PER_SECOND * Abs(speed))

\* the angle a servo driven at speed for ms has turned by: to the right > 0
Rotation(speed, ms) ==
  LET d == (MAX_DEGREES_PER_SECOND * Abs(speed) * ms) \div (MOTOR_FULL_SPEED * 1000)
  IN  IF speed < 0 THEN 0 - d ELSE d

\* Motor::turn_left_degrees(degrees), Motor::turn_right_degrees(degrees): the
\* angle of the motor after the turn, and the time the turn takes
turn_left_degrees(angle, degrees) ==
  angle + Rotation(0 - MOTOR_FULL_SPEED,
                   degrees_to_delay(0 - MOTOR_FULL_SPEED, degrees))
turn_right_degrees(angle, degrees) ==
  angle + Rotation(MOTOR_FULL_SPEED, degrees_to_delay(MOTOR_FULL_SPEED, degrees))
TurnTime(speed, degrees) == 2 * SERVO_SETTLE_MS + degrees_to_delay(speed, degrees)

\* the loop of handle_beacons over the scanned devices from index i: near is
\* rssi >= BLE_MIN_VALID_RSSI_VALUE, visit_ok the answer to POST visits
RECURSIVE VisitDevices(_, _, _)
VisitDevices(devices, i, acc) ==
  IF i > Len(devices) THEN acc
  ELSE IF ~devices[i].near
       THEN VisitDevices(devices, i + 1,
                         [acc EXCEPT !.visits = Append(@, "far")])
  ELSE IF devices[i].visit_ok
       THEN VisitDevices(devices, i + 1,
              [acc EXCEPT !.visits = Append(@, "accepted"),
                          !.device_id = IF acc.valid_devices = 0 THEN i - 1 ELSE @,
                          !.valid_devices = @ + 1])
  ELSE VisitDevices(devices, i + 1,
                    [acc EXCEPT !.visits = Append(@, "rejected")])

\* Handler::Get::fed: its result and what it leaves in *can_distribute
get_fed(resp, can_distribute) ==
  IF resp.kind = "http_error" THEN [ret |-> FALSE, can_distribute |-> -1]
  ELSE IF resp.kind = "parse_error"
       THEN [ret |-> FALSE, can_distribute |-> can_distribute]
  ELSE IF resp.food_eaten < resp.food_max /\ resp.can_distribute
       THEN [ret |-> TRUE, can_distribute |-> resp.food_max - resp.food_eaten]
  ELSE [ret |-> FALSE, can_distribute |-> -1]

\* a decision that does not wait for the answer to POST fed
feed_check_ignores_update(scan_status, devices, get_resp, post_ok) ==
  LET v == VisitDevices(devices, 1, [NoCheck EXCEPT !.scan_status = scan_status,
                                                  !.scanned = devices])
      g == get_fed(get_resp, -1)
  IN  IF ~scan_status THEN [NoCheck EXCEPT !.scan_status = FALSE]
      ELSE IF v.valid_devices = 0 THEN v
      ELSE [v EXCEPT !.asked = v.device_id, !.get_resp = get_resp,
                     !.can_feed = g.ret,
                     !.distributable_amount =
                        IF g.can_distribute > MAX_FEEDING_SINGLE_PORTION
                        THEN MAX_FEEDING_SINGLE_PORTION ELSE g.can_distribute,
                     !.updated = g.ret /\ g.can_distribute > 0,
                     !.feed_update = g.ret /\ g.can_distribute > 0 /\ post_ok,
                     !.dispense = g.ret /\ g.can_distribute > 0]

\* a portion that is not capped
single_portion_uncapped(distributable_amount) == distributable_amount

\* handle_beacons: the amount capped to MAX_FEEDING_SINGLE_PORTION
single_portion(distributable_amount) ==
  IF distributable_amount > MAX_FEEDING_SINGLE_PORTION
  THEN MAX_FEEDING_SINGLE_PORTION ELSE distributable_amount

\* handle_beacons up to "Dispensing food": the scan, the visits, the GET fed
\* check for the first device whose visit was accepted, the POST fed update
feed_check(scan_status, devices, get_resp, post_ok) ==
  LET v == VisitDevices(devices, 1, [NoCheck EXCEPT !.scan_status = scan_status,
                                                  !.scanned = devices])
      g == get_fed(get_resp, -1)
      w == [v EXCEPT !.asked = v.device_id, !.get_resp = get_resp,
                     !.can_feed = g.ret,
                     !.distributable_amount = g.can_distribute]
      amount == single_portion(g.can_distribute)
  IN  IF ~scan_status THEN [NoCheck EXCEPT !.scan_status = FALSE]
      ELSE IF v.valid_devices = 0 THEN v
      ELSE IF ~g.ret THEN w
      ELSE IF g.can_distribute <= 0 THEN w
      ELSE [w EXCEPT !.distributable_amount = amount, !.updated = TRUE,
                     !.food_amount = U32(amount),
                     !.feed_update = post_ok, !.dispense = post_ok]

\* k calls of activity(c, true), each followed by activity(c, false)
RECURSIVE Pulsed(_, _, _, _, _)
Pulsed(cmds, nodes, c, k, t) ==
  IF k = 0 THEN cmds
  ELSE Pulsed(activity_call(activity_call(cmds, nodes, c, TRUE, t),
                            nodes, c, FALSE, t),
              nodes, c, k - 1, t)

\* the requests a check has sent to the control server
Requests(check) ==
  Cardinality({i \in DOMAIN check.visits : check.visits[i] # "far"})
    + (IF check.asked # NoValue THEN 1 ELSE 0)
    + (IF check.updated THEN 1 ELSE 0)

\* what the scan and the control server may answer
DeviceInputs == [near : BOOLEAN, visit_ok : BOOLEAN]
ScanInputs == UNION {[1 .. n -> DeviceInputs] : n \in 1 .. MaxDevices}
AmountInputs == {0, 2, MAX_FEEDING_SINGLE_PORTION + 2}
GetInputs ==
  {[kind |-> "http_error"], [kind |-> "parse_error"]}
    \cup {[kind |-> "ok", food_eaten |-> e, food_max |-> m, can_distribute |-> b] :
            e \in AmountInputs, m \in AmountInputs, b \in BOOLEAN}

FeederVars == <<_nodes, pixels, strip, phase, _led_position, calls, advances,
                produced, call>>

\* handle_beacons() from its call to its return or to "Dispensing food"
HandleBeacons(scan_status, devices, get_resp, post_ok) ==
  /\ phase = "run"
  /\ feeder.pc = "idle"
  /\ LET check == feed_check(scan_status, devices, get_resp, post_ok)
     IN  /\ feeder' = [feeder EXCEPT !.pc = IF check.dispense THEN "dispensing"
                                           ELSE "idle",
                                    !.check = check,
                                    !.moves = <<>>,
                                    !.feeds = IF check.dispense THEN @ + 1 ELSE @]
         /\ _led_commands' = Pulsed(_led_commands, _nodes, Server,
                                    Requests(check), now)
  /\ shows' = 0
  /\ last' = Op("handle_beacons", NoValue, NoValue, {})
  /\ main_loop' = [main_loop EXCEPT !.handle_beacons = FALSE]
  /\ UNCHANGED <<now, FeederVars>>

\* a turn of one of the motors during the dispensing
Turn(to, motor, component, fn, speed) ==
  /\ feeder' = [feeder EXCEPT
        !.pc = to,
        ![motor] = IF fn = "turn_left_degrees"
                   THEN turn_left_degrees(@, FEED_TURN_DEGREES)
                   ELSE turn_right_degrees(@, FEED_TURN_DEGREES),
        !.moves = Append(@, <<motor, fn, FEED_TURN_DEGREES>>)]
  /\ now' = Add32(now, TurnTime(speed, FEED_TURN_DEGREES))
  /\ _led_commands' = Pulsed(_led_commands, _nodes, component, 1, now)
  /\ shows' = 0
  /\ last' = Op(fn, component, NoValue, {})
  /\ UNCHANGED <<main_loop, FeederVars>>

\* "Closing tray": leftMotor->turn_right_degrees(90)
CloseTray ==
  /\ feeder.pc = "dispensing"
  /\ Turn("tray_closed", "leftMotor", MotorLeft,
     "turn_right_degrees", MOTOR_FULL_SPEED)

\* "Opening food trap": rightMotor->turn_left_degrees(90)
OpenTrap ==
  /\ feeder.pc = "tray_closed"
  /\ Turn("trap_open", "rightMotor", MotorRight,
     "turn_left_degrees", 0 - MOTOR_FULL_SPEED)

\* the wait of distributable_amount ms while the food falls
DispenseWait ==
  /\ feeder.pc = "trap_open"
  /\ feeder' = [feeder EXCEPT !.pc = "dispensed"]
  /\ now' = Add32(now, feeder.check.distributable_amount + 1)
  /\ shows' = 0
  /\ last' = Op("dispense_wait", NoValue, feeder.check.distributable_amount, {})
  /\ UNCHANGED <<_led_commands, main_loop, FeederVars>>

\* "closing trap": rightMotor->turn_right_degrees(90)
CloseTrap ==
  /\ feeder.pc = "dispensed"
  /\ Turn("trap_closed", "rightMotor", MotorRight,
     "turn_right_degrees", MOTOR_FULL_SPEED)

\* "opening tray": leftMotor->turn_left_degrees(90), and the return
OpenTray ==
  /\ feeder.pc = "trap_closed"
  /\ Turn("idle", "leftMotor", MotorLeft,
     "turn_left_degrees", 0 - MOTOR_FULL_SPEED)

\* the steps of the dispensing
Dispense == CloseTray \/ OpenTrap \/ DispenseWait \/ CloseTrap \/ OpenTray

\* setup(), then handle_beacons() called from loop()
NextFeeder ==
  \/ InitialiseActiveComponents
  \/ \E scan_status \in BOOLEAN, devices \in ScanInputs,
        get_resp \in GetInputs, post_ok \in BOOLEAN :
       feeder.feeds < MaxFeeds
         /\ HandleBeacons(scan_status, devices, get_resp, post_ok)
  \/ CloseTray
  \/ OpenTrap
  \/ DispenseWait
  \/ CloseTrap
  \/ OpenTray

\* sizes passed to data_transmission
SizeInputs == {0, 3, MAX_TRANSMISSION_LEDS + 2}

\* the operations on the nodes alone
NextNodes ==
  \/ InitialiseActiveComponents
  \/ \E d \in TimeSteps : advances < MaxAdvances /\ AdvanceTime(d)
  \/ \E c \in 0 .. MaxNodeComponent : calls < MaxNodeCalls /\ Enable(c)
  \/ \E c \in 0 .. MaxNodeComponent : calls < MaxNodeCalls /\ Disable(c)
  \/ \E c \in 0 .. MaxNodeComponent, pos \in PosInputs :
       calls < MaxNodeCalls /\ SetPosition(c, pos)
  \/ \E c \in 0 .. MaxNodeComponent, step \in StepInputs :
       calls < MaxNodeCalls /\ SetStep(c, step)
  \/ \E c \in 0 .. MaxNodeComponent, b \in BOOLEAN :
       calls < MaxNodeCalls /\ SetDisableOnComplete(c, b)
  \/ Tick

\* every operation of the Panel
Next ==
  \/ InitialiseActiveComponents
  \/ \E d \in TimeSteps : advances < MaxAdvances /\ AdvanceTime(d)
  \/ \E c \in 0 .. MaxComponent : calls < MaxCalls /\ Enable(c)
  \/ \E c \in 0 .. MaxComponent : calls < MaxCalls /\ Disable(c)
  \/ \E c \in 0 .. MaxComponent, pos \in PosInputs :
       calls < MaxCalls /\ SetPosition(c, pos)
  \/ \E c \in 0 .. MaxComponent, step \in StepInputs :
       calls < MaxCalls /\ SetStep(c, step)
  \/ \E c \in 0 .. MaxComponent, b \in BOOLEAN :
       calls < MaxCalls /\ SetDisableOnComplete(c, b)
  \/ Tick
  \/ Render
  \/ BuildBaseFrame
  \/ \E c \in 0 .. MaxComponent, a \in BOOLEAN :
       calls < MaxCalls /\ produced < MaxProduced /\ Activity(c, a)
  \/ \E c \in 0 .. MaxComponent, size \in SizeInputs :
       calls < MaxCalls /\ produced < MaxProduced /\ DataTransmission(c, size)
  \/ calls < MaxCalls /\ AllocateLedCommand

\* the operations on a buffer that has temporary slots
NextPool ==
  \/ InitialiseActiveComponents
  \/ \E d \in TimeSteps : advances < MaxAdvances /\ AdvanceTime(d)
  \/ calls < MaxCalls /\ Enable(WifiStatus)
  \/ calls < MaxCalls /\ SetPosition(Clock, LED_NUMBER + 10)
  \/ Render
  \/ AllocateLedCommand
  \/ \E in \in CmdInputs : ActivateCommand(in.pos, in.colour, in.duration)

\* the node setters, tick and render on a buffer that has temporary slots
NextOverlay ==
  \/ InitialiseActiveComponents
  \/ advances < MaxOverlayAdvances /\ AdvanceTime(LED_CYCLE_INTERVAL_MS)
  \/ calls < MaxOverlayCalls /\ Enable(WifiStatus)
  \/ calls < MaxOverlayCalls /\ SetPosition(Clock, LED_NUMBER + 10)
  \/ calls < MaxOverlayCalls /\ SetPosition(Clock, LED_NUMBER)
  \/ Tick
  \/ Render
  \/ AllocateLedCommand
  \/ ActivateCommand(0, "Red", LED_COMPONENT_INTERVAL_MS)

\* the clock while commands run out
ExpiryClock == advances < MaxExpiryAdvances /\ AdvanceTime(ACTIVITY_DURATION)

\* the producers, then the clock and the renders of the main loop
NextExpiry ==
  \/ InitialiseActiveComponents
  \/ ExpiryClock
  \/ Render
  \/ advances = 0 /\ produced < MaxProduced /\ Activity(WifiStatus, TRUE)
  \/ \E size \in SizeInputs :
       advances = 0 /\ produced < MaxProduced
         /\ DataTransmission(WifiStatus, size)
  \/ AllocateLedCommand

\* how far the clock moves between two operations around the wrap
WrapSteps == {WrapMargin, LED_COMPONENT_INTERVAL_MS}

\* the producers, tick and render around the wrap of millis()
NextWrap ==
  \/ InitialiseActiveComponents
  \/ RunToWrap
  \/ \E d \in WrapSteps :
       advances >= 1 /\ advances < MaxWrapAdvances /\ AdvanceTime(d)
  \/ advances >= 1 /\ Tick
  \/ advances >= 1 /\ Render
  \/ advances >= 1 /\ produced < MaxBufferProduced /\ Activity(WifiStatus, TRUE)
  \/ advances >= 1 /\ produced < MaxBufferProduced
       /\ DataTransmission(WifiStatus, MAX_TRANSMISSION_LEDS)

\* the main loop after setup(): every LED_RENDER_INTERVAL ms, tick() and render()
NextLoop ==
  \/ InitialiseActiveComponents
  \/ advances < MaxLoopAdvances /\ AdvanceTime(LED_RENDER_INTERVAL)
  \/ Tick
  \/ Render

\* the components the producers are called for: positions 0 and 10 at startup
TransmitComponents == {WifiStatus, Error}
\* arguments of set_position: the last bottom-strip pixel, the first top-strip
\* pixel
TransmitPosInputs == {BOTTOM_STRIP_SIZE - 1, BOTTOM_STRIP_SIZE}

\* the producers and the renderer on a buffer that has temporary slots
NextTransmit ==
  \/ InitialiseActiveComponents
  \/ advances < MaxAdvances /\ AdvanceTime(LED_COMPONENT_INTERVAL_MS)
  \/ \E pos \in TransmitPosInputs : calls < MaxCalls /\ SetPosition(WifiStatus, pos)
  \/ Render
  \/ \E c \in TransmitComponents, a \in BOOLEAN :
       produced < MaxProduced /\ Activity(c, a)
  \/ \E c \in TransmitComponents, size \in SizeInputs :
       produced < MaxProduced /\ DataTransmission(c, size)

\* every operation that touches the command buffer, and tick, on the buffer
\* of SpecPool
NextBuffer ==
  \/ InitialiseActiveComponents
  \/ advances < MaxAdvances /\ AdvanceTime(LED_COMPONENT_INTERVAL_MS)
  \/ calls < MaxCalls /\ Enable(WifiStatus)
  \/ calls < MaxCalls /\ Disable(WifiStatus)
  \/ Tick
  \/ Render
  \/ BuildBaseFrame
  \/ produced < MaxBufferProduced /\ Activity(WifiStatus, TRUE)
  \/ produced < MaxBufferProduced
       /\ DataTransmission(WifiStatus, MAX_TRANSMISSION_LEDS)
  \/ AllocateLedCommand
  \/ ActivateCommand(LED_NUMBER, "White", LED_COMPONENT_INTERVAL_MS)

\* how long the rest of a pass of loop() takes, and monitorConnection()
LoopSteps == {40, LED_RENDER_INTERVAL}
LoopLatency == {0, 20}

\* setup() and the passes of loop()
NextMain ==
  \/ InitialiseActiveComponents
  \/ \E d \in LoopSteps : advances < MaxMainAdvances /\ AdvanceTime(d)
  \/ \E d \in LoopLatency, connected \in BOOLEAN, incoming \in BOOLEAN :
       advances < MaxMainAdvances /\ Loop(d, connected, incoming)

\* the time between two passes of loop() around the first BLE status check
BleSteps == {40, BLE_STATUS_CHECK_INTERVAL \div 2}

\* the answers a handle_beacons() called from loop() is given
BleScanInputs == {<<[near |-> TRUE, visit_ok |-> TRUE]>>}
BleGetInputs ==
  {[kind |-> "http_error"],
   [kind |-> "ok", food_eaten |-> 0, food_max |-> 2, can_distribute |-> TRUE]}

\* setup(), the passes of loop(), and the handle_beacons() a pass calls
NextBle ==
  \/ InitialiseActiveComponents
  \/ \E d \in BleSteps :
       advances < MaxBleAdvances /\ feeder.pc = "idle"
         /\ ~main_loop.handle_beacons /\ AdvanceTime(d)
  \/ \E connected \in BOOLEAN, incoming \in BOOLEAN :
       Loop(0, connected, incoming)
  \/ \E scan_status \in BOOLEAN, devices \in BleScanInputs,
        get_resp \in BleGetInputs :
       main_loop.handle_beacons /\ feeder.feeds < MaxFeeds
         /\ HandleBeacons(scan_status, devices, get_resp, TRUE)
  \/ CloseTray
  \/ OpenTrap
  \/ DispenseWait
  \/ CloseTrap
  \/ OpenTray

Spec == Init /\ [][Next]_vars

SpecMain == Init /\ [][NextMain]_vars

SpecBle == Init /\ [][NextBle]_vars

SpecOverlay == InitPool /\ [][NextOverlay]_vars

SpecWrap == InitPool /\ [][NextWrap]_vars

\* loop() never stops: millis() goes on and render() is called again
SpecExpiry ==
  InitPool /\ [][NextExpiry]_vars /\ WF_vars(ExpiryClock) /\ WF_vars(Render)

SpecHelpers == InitHelpers /\ [][NextHelpers]_vars

\* handle_beacons() is straight-line code: a dispensing under way goes on
SpecFeeder == Init /\ [][NextFeeder]_vars /\ WF_vars(Dispense)

SpecTransmit == InitTransmit /\ [][NextTransmit]_vars

SpecBuffer == InitPool /\ [][NextBuffer]_vars

SpecLoop == Init /\ [][NextLoop]_vars

SpecNodes == Init /\ [][NextNodes]_vars

SpecPool == InitPool /\ [][NextPool]_vars


(***************************************************************************)
(* Properties.                                                             *)
(***************************************************************************)
InStrip(pos) == pos \in 0 .. (LED_NUMBER - 1)

Highest(S) == CHOOSE i \in S : \A j \in S : j <= i
Lowest(S) == CHOOSE i \in S : \A j \in S : i <= j

\* now - startTime >= duration with duration > 0, in the words of the spec
Elapsed(cmd, t) ==
  /\ cmd.duration > 0
  /\ LET e == Sub32(t, cmd.startTime)
     IN  e[1] > 0 \/ e[2] >= cmd.duration

\* C1: in the shipped configuration the buffer has at least one temporary
\* slot, and activity(c, true) on the initialised panel is not dropped: a
\* temporary slot is then active at the pulse position in the node's colour
\* (what a render within 1000 ms draws).
C1_ShippedPoolTakesPulse ==
  last.op = "activity" =>
    /\ TotalCmds - LED_NUMBER >= 1
    /\ \E i \in TempSlots :
         /\ _led_commands[i].active
         /\ _led_commands[i].pos = PulsePos(_nodes[Get(last.c)])
         /\ _led_commands[i].colour = _nodes[Get(last.c)].colour

\* The layers of the spec at pixel p: the highest live temporary command, else
\* the highest enabled node, else the base frame.
Composite(p, cmds, nodes, t) ==
  LET temps == {i \in LED_NUMBER .. (Cardinality(DOMAIN cmds) - 1) :
                  cmds[i].active /\ ~Elapsed(cmds[i], t) /\ cmds[i].pos = p}
      ns == {c \in Components : nodes[c].node_enabled /\ nodes[c].pos = p}
  IN  IF temps # {} THEN cmds[Highest(temps)].colour
      ELSE IF ns # {} THEN nodes[Highest(ns)].colour
      ELSE cmds[p].colour

Shown(i, before, after, px) ==
  (\A j \in (i + 1) .. (Cardinality(DOMAIN before) - 1) :
      ~(after[j].active /\ after[j].pos = before[i].pos))
    => px[before[i].pos] = before[i].colour

C5_WitnessFull ==
  /\ last.op = "allocate"
  /\ TempSlots # {}
  /\ \A i \in TempSlots : _led_commands[i].active
  /\ last.ret = NoValue


\* the new position before any clamp, as the spec words it
Unclamped(n) == n.pos + n.pos_step

\* C6, as claimed: right after every tick(), whatever operations came before,
\* every node's position is within 0 .. N-1.
C6_AllPositionsInStripAfterTick ==
  last.op = "tick" => \A c \in Components : InStrip(_nodes[c].pos)

\* C6, amended: right after a tick(), every node that was enabled and whose
\* interval had elapsed is within 0 .. N-1; a disabled node, or one whose
\* interval has not elapsed, keeps the position it had, so a position within
\* 0 .. N-1 before the tick is within 0 .. N-1 after it.
C6_TickedPositionsInStrip ==
  [][last'.op = "tick" =>
       \A c \in Components :
         /\ c \in last'.fired => InStrip(_nodes'[c].pos)
         /\ c \notin last'.fired => _nodes'[c].pos = _nodes[c].pos
         /\ InStrip(_nodes[c].pos) => InStrip(_nodes'[c].pos)]_vars

\* the clock node, never ticked before and set beyond the strip by
\* set_position, is at 0 after its first qualifying tick
C6_Witness ==
  /\ last.op = "tick"
  /\ Clock \in last.fired
  /\ _nodes[Clock].tick_animation.current_frame = 1
  /\ _nodes[Clock].pos_step = 1
  /\ _nodes[Clock].pos = 0

\* C7: a qualifying tick that would carry a node with disableOnComplete past
\* a boundary (past N-1 with a positive step, below 0 with a negative one)
\* disables the node and does not move it to the opposite end of the strip.
C7_DisableWithoutWrap ==
  [][last'.op = "tick" =>
       \A c \in last'.fired :
         _nodes[c].disable_on_complete =>
           /\ (_nodes[c].pos_step > 0 /\ Unclamped(_nodes[c]) > LED_NUMBER - 1)
                => (~_nodes'[c].node_enabled /\ _nodes'[c].pos # 0)
           /\ (_nodes[c].pos_step < 0 /\ Unclamped(_nodes[c]) < 0)
                => (~_nodes'[c].node_enabled
                    /\ _nodes'[c].pos # LED_NUMBER - 1)]_vars

\* C8, as claimed: for an enabled node without disableOnComplete a qualifying
\* tick whose unclamped position + step exceeds N-1 sets the position to 0,
\* one whose unclamped position + step is below 0 sets it to N-1, and the
\* node stays enabled.
C8_WrapOnUnclamped ==
  [][last'.op = "tick" =>
       \A c \in last'.fired :
         ~_nodes[c].disable_on_complete =>
           /\ Unclamped(_nodes[c]) > LED_NUMBER - 1
                => (_nodes'[c].pos = 0 /\ _nodes'[c].node_enabled)
           /\ Unclamped(_nodes[c]) < 0
                => (_nodes'[c].pos = LED_NUMBER - 1
                    /\ _nodes'[c].node_enabled)]_vars

\* C8, amended: for an enabled node without disableOnComplete a qualifying
\* tick whose unclamped position + step exceeds N-1 with a step >= 0 sets the
\* position to 0; one whose unclamped position + step is below 0, or exceeds
\* N-1 with a negative step, sets it to N-1; the node stays enabled.
C8_WrapInDirectionOfStep ==
  [][last'.op = "tick" =>
       \A c \in last'.fired :
         ~_nodes[c].disable_on_complete =>
           /\ (Unclamped(_nodes[c]) > LED_NUMBER - 1 /\ _nodes[c].pos_step >= 0)
                => (_nodes'[c].pos = 0 /\ _nodes'[c].node_enabled)
           /\ (Unclamped(_nodes[c]) > LED_NUMBER - 1 /\ _nodes[c].pos_step < 0)
                => (_nodes'[c].pos = LED_NUMBER - 1 /\ _nodes'[c].node_enabled)
           /\ Unclamped(_nodes[c]) < 0
                => (_nodes'[c].pos = LED_NUMBER - 1
                    /\ _nodes'[c].node_enabled)]_vars

\* the clock node, set at N-2 with step +1, has reached N-1 on its first
\* qualifying tick and wrapped to 0, enabled, on its second
C8_Witness ==
  /\ last.op = "tick"
  /\ Clock \in last.fired
  /\ _nodes[Clock].tick_animation.current_frame = 2
  /\ _nodes[Clock].pos_step = 1
  /\ ~_nodes[Clock].disable_on_complete
  /\ _nodes[Clock].node_enabled
  /\ _nodes[Clock].pos = 0

\* C9: wrap or disable happens only when the unclamped new position lies
\* outside 0 .. N-1, never when it equals a boundary index: a qualifying tick
\* with the unclamped new position inside 0 .. N-1 moves the node there and
\* leaves its enabled flag; the node then stays until the next qualifying
\* tick; from N-1 with step +1 and no disableOnComplete that tick wraps to 0.
C9_NoPrematureWrap ==
  [][last'.op = "tick" =>
       \A c \in Components :
         /\ (c \in last'.fired /\ InStrip(Unclamped(_nodes[c]))) =>
              /\ _nodes'[c].pos = Unclamped(_nodes[c])
              /\ _nodes'[c].node_enabled = _nodes[c].node_enabled
         /\ c \notin last'.fired =>
              /\ _nodes'[c].pos = _nodes[c].pos
              /\ _nodes'[c].node_enabled = _nodes[c].node_enabled
         /\ (c \in last'.fired /\ _nodes[c].pos = LED_NUMBER - 1
             /\ _nodes[c].pos_step = 1 /\ ~_nodes[c].disable_on_complete) =>
              _nodes'[c].pos = 0]_vars

\* the clock node, set at N-2 with step +1, is at N-1 and enabled after its
\* first qualifying tick
C9_Witness ==
  /\ last.op = "tick"
  /\ Clock \in last.fired
  /\ _nodes[Clock].tick_animation.current_frame = 1
  /\ _nodes[Clock].pos = LED_NUMBER - 1
  /\ _nodes[Clock].pos_step = 1
  /\ _nodes[Clock].node_enabled

BottomStrip == 0 .. (BOTTOM_STRIP_SIZE - 1)
TopStrip == TOP_STRIP_START .. (LED_NUMBER - 1)

\* C11: in every state after initialisation every node position lies in the
\* bottom strip 0 .. 14, and after a render() a top-strip pixel 15 .. 29
\* differs from the base frame only where a temporary command is drawn.
C11_NodesStayInBottomStrip ==
  phase = "run" =>
    /\ \A c \in Components : _nodes[c].pos \in BottomStrip
    /\ last.op = "render" =>
         \A p \in TopStrip :
           \/ pixels[p] = _led_commands[p].colour
           \/ \E i \in TempSlots :
                /\ _led_commands[i].active
                /\ _led_commands[i].pos = p
                /\ _led_commands[i].colour = pixels[p]


\* the five indicator positions the spec gives a node at bottom position b,
\* and those of them that lie in the top strip
Indicators(b) ==
  {TOP_STRIP_START + (BOTTOM_STRIP_SIZE - 1 - b) - i :
     i \in 0 .. (MAX_TRANSMISSION_LEDS - 1)}
TopIndicators(b) == Indicators(b) \cap TopStrip

FreeSlots(cmds) ==
  {i \in LED_NUMBER .. (Cardinality(DOMAIN cmds) - 1) : ~cmds[i].active}

\* the slots a call has activated
Activated(before, after) ==
  {i \in DOMAIN before : after[i].active /\ after[i] # before[i]}

\* the pixels a render() right after the step would show
NextRender == render(pixels', _nodes', _led_commands', now').px

LiveIndicators(cmds, n, t) ==
  {i \in LED_NUMBER .. (Cardinality(DOMAIN cmds) - 1) :
     /\ cmds[i].active
     /\ cmds[i].duration = TRANSMISSION_DURATION
     /\ ~Elapsed(cmds[i], t)
     /\ cmds[i].colour = n.colour
     /\ cmds[i].pos \in TopIndicators(n.pos)}

BeyondBottom == {BOTTOM_STRIP_SIZE, LED_NUMBER - 1, LED_NUMBER, LED_NUMBER + 10, 65535}

NextPixel(q) == IF q + 1 >= LED_NUMBER THEN 0 ELSE q + 1

Deactivated == {i \in TempSlots : _led_commands[i].active /\ ~_led_commands'[i].active}

BaseSlot(cmd, i) ==
  /\ cmd.pos = i
  /\ cmd.colour = "Black"
  /\ cmd.duration = 0
  /\ cmd.active

C19_WitnessKept ==
  /\ last.op = "render"
  /\ produced > 0
  /\ \A j \in TempSlots : _led_commands[j].active
  /\ \A i \in 0 .. (LED_NUMBER - 1) : BaseSlot(_led_commands[i], i)


NoNodeEnabled(nodes) == \A c \in Components : ~nodes[c].node_enabled

\* C20: from any state reached by the panel's operations, build_base_frame()
\* followed immediately by render() with every node disabled leaves every
\* one of the N pixels at the background colour.
C20_RebuildThenRenderIsBackground ==
  [][/\ (last'.op = "build_base_frame" /\ NoNodeEnabled(_nodes')) =>
          \A p \in 0 .. (LED_NUMBER - 1) : NextRender[p] = "Black"
     /\ (last.op = "build_base_frame" /\ last'.op = "render"
         /\ NoNodeEnabled(_nodes)) =>
          \A p \in 0 .. (LED_NUMBER - 1) : pixels'[p] = "Black"]_vars

\* the base frame has been rebuilt with every node disabled while pixel 0
\* still shows the overlay of the clock from the render before
C20_Witness ==
  /\ last.op = "build_base_frame"
  /\ NoNodeEnabled(_nodes)
  /\ pixels[0] = "Yellow"
  /\ _nodes[Clock].pos = 0


\* the operations that only change the nodes or queue commands
QuietOps == {"tick", "activity", "activity_off", "data_transmission", "enable", "disable"}

Repainted(nodes, c, q) == [nodes EXCEPT ![c].pos = q, ![c].colour = "White"]

\* C22: tick() leaves a disabled node entirely unchanged (position, enabled
\* flag, last-update time, frame counter, ticked flag and every other field),
\* and render() draws nothing for a disabled node: the frame is the same
\* wherever the node is and whatever its colour.
C22_DisabledNodeUntouched ==
  [][/\ last'.op = "tick" =>
          \A c \in Components :
            ~_nodes[c].node_enabled => _nodes'[c] = _nodes[c]
     /\ last'.op \in {"tick", "render"} =>
          \A c \in Components :
            ~_nodes'[c].node_enabled =>
              \A q \in {0, LED_NUMBER - 1} :
                render(pixels, Repainted(_nodes', c, q), _led_commands, now).px
                  = NextRender]_vars

\* the clock node, disabled with its interval elapsed, has been through a
\* tick: its timer is the one it had, still due
C22_Witness ==
  /\ last.op = "tick"
  /\ ~_nodes[Clock].node_enabled
  /\ Fires(_nodes[Clock], now)
  /\ _nodes[Clock].tick_animation.current_frame = 0
  /\ ~_nodes[Clock].tick_animation.ticked


\* the live pulses queued for node n
PendingPulses(cmds, n, t) ==
  {i \in LED_NUMBER .. (Cardinality(DOMAIN cmds) - 1) :
     /\ cmds[i].active
     /\ cmds[i].duration = ACTIVITY_DURATION
     /\ ~Elapsed(cmds[i], t)
     /\ cmds[i].pos = NextPixel(n.pos)
     /\ cmds[i].colour = n.colour}

C24_WitnessSkipped ==
  /\ last.op = "loop"
  /\ last.ret = 0
  /\ Sub32(now, main_loop.last_led_render) = U32(40)


C26_ClampCount ==
  call.f = "_clamp_count" =>
    LET n == call.args[1]
    IN  /\ (n < 0 \/ n > LED_NUMBER) => call.ret = LED_NUMBER
        /\ (0 <= n /\ n <= LED_NUMBER) => call.ret = n
        /\ n = LED_NUMBER => call.ret = LED_NUMBER
        /\ call.ret \in 0 .. LED_NUMBER

\* _clamp_count has been called with the smallest int16_t and returned N
C26_Witness ==
  /\ call.f = "_clamp_count"
  /\ call.args[1] = -32768
  /\ call.ret = LED_NUMBER

\* C27: for every 16-bit signed n, _clamp_index_inclusif(n) returns N-1 when
\* n < 0 or n >= N and returns n otherwise: a negative index maps to the last
\* index, not to 0, and the result is always within 0 .. N-1.
C27_ClampIndexInclusive ==
  call.f = "_clamp_index_inclusif" =>
    LET n == call.args[1]
    IN  /\ (n < 0 \/ n >= LED_NUMBER) => call.ret = LED_NUMBER - 1
        /\ (0 <= n /\ n < LED_NUMBER) => call.ret = n
        /\ call.ret \in 0 .. (LED_NUMBER - 1)

\* _clamp_index_inclusif has been called with -1 and returned the last index
C27_Witness ==
  /\ call.f = "_clamp_index_inclusif"
  /\ call.args[1] = -1
  /\ call.ret = LED_NUMBER - 1

\* C28: leds_for_progress(current, max, totalLeds) returns 0 when max is 0,
\* and otherwise the integer floor of current * totalLeds / max, for all
\* 0 <= current <= max with totalLeds = 30: for the max = 7 of the start-up,
\* and for every max up to MaxSteps.
C28_LedsForProgressIsFloor ==
  call.f = "leds_for_progress" =>
    LET current == call.args[1]
        max == call.args[2]
        total_leds == call.args[3]
    IN  /\ max = 0 => call.ret = 0
        /\ (max > 0 /\ current <= max) =>
             call.ret = (current * total_leds) \div max

\* step 6 of the 7 of the start-up on 30 pixels: 25 pixels, where the exact
\* value 25.71 is nearer to 26
C28_Witness ==
  /\ call.f = "leds_for_progress"
  /\ call.args = <<COUNT - 1, COUNT, LED_NUMBER>>
  /\ call.ret = 25

\* a call with max = 0 has returned 0
C28_WitnessZero ==
  /\ call.f = "leds_for_progress"
  /\ call.args[2] = 0
  /\ call.args[1] > 0
  /\ call.ret = 0

(***************************************************************************)
(* The feeding decision and the dispensing (handle_beacons).               *)
(***************************************************************************)
\* the devices of a scan that are near and whose visit the server accepted
Eligible(devices) ==
  {i \in DOMAIN devices : devices[i].near /\ devices[i].visit_ok}

\* the answer of GET fed allows a feeding
GetAllows(resp) ==
  /\ resp.kind = "ok"
  /\ resp.food_eaten < resp.food_max
  /\ resp.can_distribute

\* a motor has been commanded in the current or in the last invocation
MotorCommanded == feeder.pc # "idle" \/ feeder.moves # <<>>

\* C29: handle_beacons() commands a motor only if, in the same invocation, the
\* scan succeeded, at least one scanned device that is near had its visit
\* accepted, GET fed was asked for the first such device and allowed the
\* feeding, and POST fed succeeded; when one of these fails no motor is moved.
C29_MotorsOnlyAfterAllChecks ==
  MotorCommanded =>
    /\ feeder.check.scan_status
    /\ Eligible(feeder.check.scanned) # {}
    /\ \A i \in Eligible(feeder.check.scanned) : feeder.check.asked + 1 <= i
    /\ feeder.check.asked + 1 \in Eligible(feeder.check.scanned)
    /\ GetAllows(feeder.check.get_resp)
    /\ feeder.check.updated
    /\ feeder.check.feed_update

\* a feeding decided on the second device, the first one being refused
C29_Witness ==
  /\ Len(feeder.moves) = 4
  /\ Len(feeder.check.scanned) = 2
  /\ 1 \notin Eligible(feeder.check.scanned)
  /\ feeder.check.asked = 1

\* a feeding given up because POST fed failed: no motor was commanded
C29_WitnessRefused ==
  /\ last.op = "handle_beacons"
  /\ feeder.check.updated
  /\ ~feeder.check.feed_update
  /\ ~MotorCommanded

\* the motor commands of one dispensing, in the order of the code
FeedSequence ==
  << <<"leftMotor", "turn_right_degrees", FEED_TURN_DEGREES>>,
     <<"rightMotor", "turn_left_degrees", FEED_TURN_DEGREES>>,
     <<"rightMotor", "turn_right_degrees", FEED_TURN_DEGREES>>,
     <<"leftMotor", "turn_left_degrees", FEED_TURN_DEGREES>> >>

\* the commands issued so far, the tray angle and the trap angle expected at
\* each point of the dispensing: the tray closes by a turn to the right, the
\* trap opens by a turn to the left
FeedProgress ==
  [dispensing  |-> <<0, 0, 0>>,
   tray_closed |-> <<1, FEED_TURN_DEGREES, 0>>,
   trap_open   |-> <<2, FEED_TURN_DEGREES, 0 - FEED_TURN_DEGREES>>,
   dispensed   |-> <<2, FEED_TURN_DEGREES, 0 - FEED_TURN_DEGREES>>,
   trap_closed |-> <<3, FEED_TURN_DEGREES, 0>>]

TrayClosed == feeder.leftMotor = FEED_TURN_DEGREES
TrapOpen == feeder.rightMotor # 0

\* the dispensing is where the order of the code puts it
DispensingInOrder ==
  /\ feeder.moves = SubSeq(FeedSequence, 1, Len(feeder.moves))
  /\ feeder.pc # "idle" =>
       /\ Len(feeder.moves) = FeedProgress[feeder.pc][1]
       /\ feeder.leftMotor = FeedProgress[feeder.pc][2]
       /\ feeder.rightMotor = FeedProgress[feeder.pc][3]
  /\ feeder.pc = "dispensed" =>
       /\ last.op = "dispense_wait"
       /\ last.ret = feeder.check.distributable_amount
  /\ TrapOpen => TrayClosed
  /\ feeder.pc = "idle" =>
       /\ Len(feeder.moves) \in {0, Len(FeedSequence)}
       /\ feeder.leftMotor = 0
       /\ feeder.rightMotor = 0

\* C30: once handle_beacons() starts dispensing, it closes the tray (left
\* motor, right 90), opens the trap (right motor, left 90), waits, closes the
\* trap (right motor, right 90) and opens the tray (left motor, left 90), in
\* this order and all of them; the trap is open only while the tray is closed,
\* and both motors are back at their initial angle when the function returns.
C30_DispensingOrder ==
  /\ []DispensingInOrder
  /\ (feeder.pc = "dispensing") ~>
       (feeder.pc = "idle" /\ feeder.moves = FeedSequence)

\* handle_beacons has returned from a dispensing
C30_Witness ==
  /\ feeder.pc = "idle"
  /\ feeder.moves = FeedSequence
  /\ last.op = "turn_left_degrees"
  /\ last.c = MotorLeft
  /\ feeder.leftMotor = 0
  /\ feeder.rightMotor = 0

\* the wait is over: the trap is open and the tray is closed
C30_WitnessTrapOpen ==
  /\ feeder.pc = "dispensed"
  /\ TrapOpen
  /\ TrayClosed
  /\ feeder.check.distributable_amount = MAX_FEEDING_SINGLE_PORTION

\* what the server's answer leaves to give, capped to a single portion
PortionOf(resp) ==
  Min(resp.food_max - resp.food_eaten, MAX_FEEDING_SINGLE_PORTION)

\* C31: whenever handle_beacons() dispenses, the amount it reports in POST fed
\* and waits for with the trap open is min(food_max - food_eaten,
\* MAX_FEEDING_SINGLE_PORTION) of the server's answer, and it lies in
\* 1..MAX_FEEDING_SINGLE_PORTION: a non-positive amount never reaches the motors.
C31_PortionIsCappedAndPositive ==
  MotorCommanded =>
    /\ feeder.check.get_resp.kind = "ok"
    /\ PortionOf(feeder.check.get_resp) \in 1 .. MAX_FEEDING_SINGLE_PORTION
    /\ feeder.check.food_amount = U32(PortionOf(feeder.check.get_resp))
    /\ feeder.check.distributable_amount = PortionOf(feeder.check.get_resp)
    /\ feeder.pc = "dispensed" => last.ret = PortionOf(feeder.check.get_resp)

\* the wait of a feeding whose answer left more than a single portion
C31_Witness ==
  /\ feeder.pc = "dispensed"
  /\ feeder.check.get_resp.food_max - feeder.check.get_resp.food_eaten
       > MAX_FEEDING_SINGLE_PORTION
  /\ last.ret = MAX_FEEDING_SINGLE_PORTION

\* the wait of a feeding whose answer left less than a single portion
C31_WitnessSmall ==
  /\ feeder.pc = "dispensed"
  /\ feeder.check.get_resp.food_max - feeder.check.get_resp.food_eaten
       < MAX_FEEDING_SINGLE_PORTION
  /\ last.ret = feeder.check.get_resp.food_max - feeder.check.get_resp.food_eaten

\* an answer that leaves nothing: the check ends before POST fed
C31_WitnessNothing ==
  /\ last.op = "handle_beacons"
  /\ feeder.check.asked # NoValue
  /\ feeder.check.get_resp.kind = "ok"
  /\ feeder.check.get_resp.food_max - feeder.check.get_resp.food_eaten <= 0
  /\ ~feeder.check.updated
  /\ ~MotorCommanded

(***************************************************************************)
(* The BLE section of loop().                                              *)
(***************************************************************************)
\* C32: two consecutive executions of the BLE status check of loop() (and of
\* the beacon handling it can trigger) are at least BLE_STATUS_CHECK_INTERVAL
\* = 10000 ms apart.
C32_BleStatusCheckThrottled ==
  (main_loop.ble_at # <<>> /\ main_loop.ble_before # <<>>) =>
    Ge32(Sub32(main_loop.ble_at, main_loop.ble_before),
         BLE_STATUS_CHECK_INTERVAL)

\* two passes 40 ms apart that both ran the BLE status check and both called
\* handle_beacons()
C32_TwoChecksWithinInterval ==
  /\ last.op = "loop"
  /\ main_loop.ble = "beacons"
  /\ main_loop.ble_before # <<>>
  /\ Sub32(main_loop.ble_at, main_loop.ble_before) = U32(40)
  /\ feeder.feeds = 1

(***************************************************************************)
(* The timers of the nodes.                                                *)
(***************************************************************************)
\* the time since the timer of node n last fired, and whether that reaches
\* its interval
SinceFired(n, t) == Sub32(t, n.tick_animation.last_update_ms)
IntervalElapsed(n, t) == Ge32(SinceFired(n, t), n.tick_animation.interval_ms)

\* C33: a Panel::tick() call advances an enabled node by one step when its
\* interval has elapsed since its timer last fired, however many intervals
\* that makes, and by none otherwise; the firing is consumed by that call, so
\* a timer that fired is observed once.
C33_OneStepPerTick ==
  [][last'.op = "tick" =>
       \A c \in Components :
         _nodes[c].node_enabled =>
           /\ ~tick_animation_ticked(_nodes'[c].tick_animation)
           /\ IF IntervalElapsed(_nodes[c], now)
              THEN /\ _nodes'[c].tick_animation.current_frame
                        = _nodes[c].tick_animation.current_frame + 1
                   /\ _nodes'[c].tick_animation.last_update_ms = now
                   /\ _nodes'[c].pos \in
                        {U16(_clamp_index_inclusif(Unclamped(_nodes[c]))),
                         WrapPos(_nodes[c].pos_step)}
                   /\ c \in last'.fired
              ELSE /\ _nodes'[c] = _nodes[c]
                   /\ c \notin last'.fired]_vars

\* the first firing of the clock's timer, five intervals at least after the
\* timer was built: one frame, one step
C33_Witness ==
  /\ last.op = "tick"
  /\ Clock \in last.fired
  /\ Ge32(now, LED_COMPONENT_INTERVAL_MS)
  /\ _nodes[Clock].tick_animation.current_frame = 1
  /\ _nodes[Clock].tick_animation.last_update_ms = now
  /\ _nodes[Clock].pos = 1

\* a second tick() at the time of a firing: the timer does not fire and the
\* node stays
C33_WitnessSecondTick ==
  /\ last.op = "tick"
  /\ Clock \notin last.fired
  /\ _nodes[Clock].node_enabled
  /\ _nodes[Clock].tick_animation.current_frame = 1
  /\ _nodes[Clock].tick_animation.last_update_ms = now
  /\ _nodes[Clock].pos = 1

(***************************************************************************)
(* Expiry between two renders.                                             *)
(***************************************************************************)
\* the operations that ask for a temporary slot
Allocators == {"allocate", "activity", "data_transmission"}

\* the temporary slots whose command is active and has run out at time t
ExpiredHeld(cmds, t) ==
  {i \in TempSlots : cmds[i].active /\ Elapsed(cmds[i], t)}

C34_WitnessTransmission ==
  /\ last.op = "data_transmission"
  /\ TempSlots # {}
  /\ ExpiredHeld(_led_commands, now) = TempSlots

(***************************************************************************)
(* The row of transmission indicators.                                     *)
(***************************************************************************)
\* the number of indicators of a node at bottom position b
IndicatorCount(b) == Min(MAX_TRANSMISSION_LEDS, BOTTOM_STRIP_SIZE - b)

\* the command the spec gives indicator i of a transmission of size for a
\* node of colour at bottom position b, queued at time t
IndicatorCommand(b, i, size, colour, t) ==
  [pos |-> LED_NUMBER - 1 - b - i,
   colour |-> IF i < Min(size, MAX_TRANSMISSION_LEDS) THEN colour
              ELSE LED_DEFAULT_BACKGROUND.colour,
   duration |-> TRANSMISSION_DURATION, startTime |-> t, active |-> TRUE]

\* cmds with the row of a node at b queued in the first free slots, indicator
\* i in the i-th of them (i from 0), and nothing else changed
WithRow(cmds, b, size, colour, t) ==
  LET free == FreeSlots(cmds)
  IN  [k \in DOMAIN cmds |->
         LET i == Cardinality({j \in free : j < k})
         IN  IF k \in free /\ i < IndicatorCount(b)
             THEN IndicatorCommand(b, i, size, colour, t)
             ELSE cmds[k]]

\* the positions of the row of a node at b lie in the top strip
RowInTopStrip(b) ==
  \A i \in 0 .. (IndicatorCount(b) - 1) : LED_NUMBER - 1 - b - i \in TopStrip

C35_WitnessShortRow ==
  /\ last.op = "data_transmission"
  /\ last.c = WifiStatus
  /\ _nodes[WifiStatus].pos = BOTTOM_STRIP_SIZE - 1
  /\ _led_commands[LED_NUMBER] =
       IndicatorCommand(BOTTOM_STRIP_SIZE - 1, 0, last.ret,
                        _nodes[WifiStatus].colour, now)
  /\ ~_led_commands[LED_NUMBER + 1].active

(***************************************************************************)
(* A node beyond the strip.                                                *)
(***************************************************************************)
\* the enabled nodes whose position is beyond the strip
BeyondStrip(nodes) ==
  {c \in Components : nodes[c].node_enabled /\ nodes[c].pos >= LED_NUMBER}

\* what a pixel shows when the nodes of S are left out: the highest live
\* temporary command on it, else the highest other enabled node on it, else
\* the base frame
CompositeWithout(S, p, cmds, nodes, t) ==
  LET temps == {i \in TempSlots :
                  cmds[i].active /\ ~Elapsed(cmds[i], t) /\ cmds[i].pos = p}
      ns == {c \in Components \ S : nodes[c].node_enabled /\ nodes[c].pos = p}
  IN  IF temps # {} THEN cmds[Highest(temps)].colour
      ELSE IF ns # {} THEN nodes[Highest(ns)].colour
      ELSE cmds[p].colour

C36_WitnessCommand ==
  /\ last.op = "render"
  /\ _nodes[Clock].node_enabled
  /\ _nodes[Clock].pos = LED_NUMBER
  /\ pixels[LED_NUMBER - 1] = _led_commands[LED_NUMBER - 1].colour
  /\ \E i \in TempSlots :
       /\ _led_commands[i].active
       /\ _led_commands[i].colour = "Red"
       /\ pixels[_led_commands[i].pos] = "Red"

(***************************************************************************)
(* Every temporary command runs out.                                       *)
(***************************************************************************)
\* the temporary slots of the pooled buffer
PoolRange == LED_NUMBER .. (LED_NUMBER + PoolSlots - 1)

\* the active temporary commands have the duration of a pulse or of an
\* indicator
DurationsSet ==
  \A i \in PoolRange :
    _led_commands[i].active =>
      _led_commands[i].duration \in {ACTIVITY_DURATION, TRANSMISSION_DURATION}

C37_WitnessFull ==
  /\ \A i \in PoolRange :
       _led_commands[i].active /\ ~Elapsed(_led_commands[i], now)
  /\ _led_commands[LED_NUMBER].duration = ACTIVITY_DURATION
  /\ _led_commands[LED_NUMBER + 1].duration = TRANSMISSION_DURATION

(***************************************************************************)
(* The wrap of the millisecond clock.                                      *)
(***************************************************************************)
\* a time taken within 65536 ms of the wrap, in ms from the wrap: negative
\* before it
FromWrap(x) == IF x[1] = 65535 THEN x[2] - 65536 ELSE x[2]

\* the time really elapsed from start to t, both taken around the wrap
ReallyElapsed(start, t) == FromWrap(t) - FromWrap(start)

\* the clock has wrapped since the time start was taken
WrappedSince(start, t) == start[1] = 65535 /\ t[1] = 0

C38_WitnessExpired ==
  /\ last.op = "render"
  /\ \E i \in TempSlots :
       /\ ~_led_commands[i].active
       /\ _led_commands[i].duration = ACTIVITY_DURATION
       /\ WrappedSince(_led_commands[i].startTime, now)
       /\ ReallyElapsed(_led_commands[i].startTime, now) = ACTIVITY_DURATION

\* the clock's timer fired before the wrap and again after it, one interval
\* later
C38_WitnessTick ==
  /\ last.op = "tick"
  /\ Clock \in last.fired
  /\ _nodes[Clock].tick_animation.current_frame = 2
  /\ now = U32(LED_CYCLE_INTERVAL_MS - WrapMargin)

QueuedNow == {s \in TempSlots : _led_commands[s].active /\ _led_commands[s].startTime = now}

C39_WitnessFull ==
  /\ last.op = "data_transmission"
  /\ _nodes[Get(last.c)].pos \in BottomStrip
  /\ \A s \in TempSlots : _led_commands[s].active
  /\ QueuedNow = {}

=============================================================================
